---- MODULE Spec2Model ----
(***************************************************************************)
(* The chat relay of src/main.py: the per-session message log              *)
(* (session_storage), the /chat handler chat_endpoint with its context     *)
(* pinning window, and the commit / rollback of the log on the outcome of  *)
(* the upstream call.                                                      *)
(*                                                                         *)
(* A handler invocation is a task.  asyncio runs a coroutine without       *)
(* interruption until it awaits something that is not ready, and the only  *)
(* such await of chat_endpoint is the upstream POST (main.py:105), so the  *)
(* handler is two atomic steps: ChatRequest (lines 77-110, up to the       *)
(* await) and one of UpstreamResponds / Cancel (what resumes the await).   *)
(*                                                                         *)
(* The auxiliary endpoints: save_feedback (main.py:137-186), whose only    *)
(* await is the call of the remote mirror, and send_email_endpoint         *)
(* (main.py:214-229) with send_email_via_smtp (email_utils.py:282-336),    *)
(* which never awaits.                                                     *)
(***************************************************************************)
EXTENDS Integers, Sequences, FiniteSets, TLC

\* ------------------------------------------------------------------ bounds
\* Spec stops taking requests once this many turns are stored (all sessions).
MaxTurns == 3
\* LongSpec and SeqSpec stop taking requests once this many turns are stored.
LongTurns == 14
\* AuxSpec stops taking feedback once the file holds this many entries.
MaxFeedback == 3

\* ------------------------------------------------------- program constants
\* history[:2]
PINNED == 2
\* history[-10:]
RECENT == 10
\* len(history) > 12
WINDOW_LIMIT == 12
\* response.status_code == 200
HTTP_OK == 200

\* ------------------------------------------------------------------ inputs
Tasks == {"t1", "t2"}
Sessions == {"default_guest", "s1"}
Messages == {"m1", "m2"}
SeqTasks == {"t1"}
LongSessions == {"default_guest"}
LongMessages == {"m1"}
FeedbackTasks == {"f1", "f2"}
Entries ==
    { [question |-> "q1", response |-> "a1", rating |-> "positive", comment |-> ""],
      [question |-> "q2", response |-> "a2", rating |-> "negative", comment |-> "wrong part"] }
Recipients == {"a@example.com"}

VARIABLES
    session_storage,  \* main.py:34  session id -> list of turns (a function
                      \* whose domain is the set of ids seen so far)
    pc,               \* per task: "idle", "awaiting", "returned", "raised",
                      \* "cancelled"
    local,            \* per task: the handler's locals session_id,
                      \* user_message, full_history_payload (as encoded into
                      \* the outbound request)
    returned,         \* per task: <<>> or <<the handler's return value>>
    response,         \* history: per task, the upstream outcome it consumed
    before,           \* history: per task, the session's log when the
                      \* handler was entered (<<>> for an unseen id)
    slot,             \* history: per task, the log position at which its
                      \* user turn was appended
    alone,            \* history: per task, no other exchange on its session
                      \* has been in flight since it began
    first_exchange,   \* history: per session, <<>> or the user turn and the
                      \* assistant turn of its first successful exchange
    succeeded,        \* history: per session, the number of exchanges that
                      \* completed successfully (kept by RaceSpec only)
    running,          \* the handler task the event loop is running, or
                      \* "none" (used by StepSpec only)
    feedback_file,    \* User_Feedback.json: absent, a JSON list of entries,
                      \* or bytes that are not JSON
    feedback,         \* per feedback task: where save_feedback is, its
                      \* locals new_entry and data, its response, and (history)
                      \* the outcome of the mirror call
    submitted,        \* history: the entries whose local write succeeded, in
                      \* the order of the writes
    mail              \* the last /send-email request: its inputs, whether
                      \* an SMTP transmission was attempted, its response

chat == <<session_storage, pc, local, returned, response, before, slot, alone,
          first_exchange>>

aux == <<feedback_file, feedback, submitted, mail>>

vars == <<session_storage, pc, local, returned, response, before, slot, alone,
          first_exchange, succeeded, running, feedback_file, feedback, submitted,
          mail>>

\* ------------------------------------------------------------------- turns
UserTurn(content) == [role |-> "user", content |-> content]

AssistantTurn(content) == [role |-> "assistant", content |-> content]

\* The log of a session id, empty when the id has no entry yet.
Stored(storage, sid) == IF sid \in DOMAIN storage THEN storage[sid] ELSE <<>>

\* ------------------------------------------------------------ Python lists
\* history[:n]
Head_(history, n) == SubSeq(history, 1, IF n < Len(history) THEN n ELSE Len(history))

\* history[-n:]
Tail_(history, n) ==
    SubSeq(history, IF Len(history) > n THEN Len(history) - n + 1 ELSE 1, Len(history))

\* history.pop() on a non-empty list: the list without its last element
Pop(history) == SubSeq(history, 1, Len(history) - 1)

\* --------------------------------------------------------- context pinning
\* Variants of ContextWindow with a plausible slip each.
ContextWindowLast20(history) ==
    IF Len(history) > WINDOW_LIMIT
    THEN Head_(history, PINNED) \o Tail_(history, 20)
    ELSE history

ContextWindowSkewed(history) ==
    IF Len(history) > WINDOW_LIMIT
    THEN Head_(history, PINNED) \o Head_(Tail_(history, RECENT + 1), RECENT)
    ELSE history

ContextWindowEager(history) ==
    IF Len(history) > RECENT
    THEN Head_(history, PINNED) \o Tail_(history, RECENT)
    ELSE history

ContextWindowSliding(history) ==
    IF Len(history) > WINDOW_LIMIT
    THEN Tail_(history, PINNED + RECENT)
    ELSE history

ContextWindow(history) ==
    IF Len(history) > WINDOW_LIMIT
    THEN Head_(history, PINNED) \o Tail_(history, RECENT)
    ELSE history

\* A variant of BeginExchange that trims the stored list to the window.
BeginExchangeTruncating(storage, sid, message) ==
    LET history == Append(Stored(storage, sid), UserTurn(message))
    IN  [session_storage |-> (sid :> ContextWindow(history)) @@ storage,
         full_history_payload |-> ContextWindow(history)]

\* Lines 81-97: create the log if needed, append the user turn, compute the
\* payload.  On the else branch the payload is the stored list itself, but
\* the request body is encoded from it before the handler first suspends, so
\* what is sent is its value at this point.
\* A variant of BeginExchange that computes the window before the append.
BeginExchangeWindowFirst(storage, sid, message) ==
    LET history == Append(Stored(storage, sid), UserTurn(message))
    IN  [session_storage |-> (sid :> history) @@ storage,
         full_history_payload |-> ContextWindow(Stored(storage, sid))]

\* A variant of BeginExchange in which every session shares one log.
BeginExchangeAliased(storage, sid, message) ==
    LET history == Append(Stored(storage, sid), UserTurn(message))
    IN  [session_storage |->
             [s \in DOMAIN storage \cup {sid} |->
                 IF s = sid THEN history
                 ELSE Append(storage[s], UserTurn(message))],
         full_history_payload |-> ContextWindow(history)]

BeginExchange(storage, sid, message) ==
    LET history == Append(Stored(storage, sid), UserTurn(message))
    IN  [session_storage |-> (sid :> history) @@ storage,
         full_history_payload |-> ContextWindow(history)]

\* ------------------------------------------------- decoded upstream bodies
\* A decoded JSON value: its Python type, the key/value pairs of a dict, the
\* elements of a list.  "invalid" is a body that is not JSON at all.
JDict(fields) == [type |-> "dict", fields |-> fields, items |-> <<>>]

JList(items) == [type |-> "list", fields |-> {}, items |-> items]

JOther(type) == [type |-> type, fields |-> {}, items |-> <<>>]

\* A list element: a dict or a string.
EDict(fields) == [type |-> "dict", fields |-> fields]

EStr == [type |-> "str", fields |-> {}]

\* d.get(key, default)
Get(d, key, default) ==
    IF \E p \in d.fields : p[1] = key
    THEN (CHOOSE p \in d.fields : p[1] = key)[2]
    ELSE default

Bodies ==
    { JList(<<>>),
      JList(<<EDict({<<"content", "Part ABC123">>})>>),
      JList(<<EDict({<<"content", "r1">>}), EDict({<<"content", "r2">>})>>),
      JList(<<EDict({<<"role", "assistant">>})>>),
      JList(<<EStr>>),
      JDict({<<"content", "r1">>}),
      JDict({<<"role", "assistant">>}),
      JDict({}),
      JOther("str"), JOther("NoneType"), JOther("invalid") }

\* What the awaited POST can produce: a response, a transport error
\* (httpx.RequestError) or any other exception.
Response(status_code, body) ==
    [kind |-> "response", status_code |-> status_code, body |-> body, text |-> ""]

Raises(kind, text) ==
    [kind |-> kind, status_code |-> 0, body |-> JOther("NoneType"), text |-> text]

NoResponse == Raises("none", "")

Outcomes ==
    {Response(HTTP_OK, b) : b \in Bodies}
        \cup {Response(500, JDict({<<"content", "r1">>})), Response(404, JOther("invalid"))}
        \cup {Raises("RequestError", "All connection attempts failed"),
              Raises("Exception", "boom")}

ConcOutcomes ==
    { Response(HTTP_OK, JDict({<<"content", "r1">>})),
      Response(HTTP_OK, JList(<<EStr>>)),
      Response(500, JOther("invalid")),
      Response(404, JDict({<<"content", "r1">>})),
      Raises("RequestError", "All connection attempts failed"),
      Raises("Exception", "boom") }

LongOutcomes ==
    { Response(HTTP_OK, JDict({<<"content", "r1">>})),
      Response(500, JOther("invalid")) }

SeqOutcomes ==
    { Response(HTTP_OK, JDict({<<"content", "r1">>})),
      Response(500, JOther("invalid")),
      Raises("RequestError", "All connection attempts failed") }

\* A variant of ParseReply whose last branch also answers "No content".
ParseReplyNoContent(data) ==
    IF data.type = "invalid"
    THEN [raised |-> TRUE, bot_reply |-> "",
          text |-> "Expecting value: line 1 column 1 (char 0)"]
    ELSE IF data.type = "list" /\ data.items # <<>>
    THEN IF data.items[1].type = "dict"
         THEN [raised |-> FALSE, text |-> "",
               bot_reply |-> Get(data.items[1], "content", "No content")]
         ELSE [raised |-> TRUE, bot_reply |-> "",
               text |-> "'str' object has no attribute 'get'"]
    ELSE IF data.type = "dict"
    THEN [raised |-> FALSE, text |-> "",
          bot_reply |-> Get(data, "content", "No content")]
    ELSE [raised |-> FALSE, text |-> "", bot_reply |-> "No content"]

\* Lines 113-119: response.json() and the choice of bot_reply.
ParseReply(data) ==
    IF data.type = "invalid"
    THEN [raised |-> TRUE, bot_reply |-> "",
          text |-> "Expecting value: line 1 column 1 (char 0)"]
    ELSE IF data.type = "list" /\ data.items # <<>>
    THEN IF data.items[1].type = "dict"
         THEN [raised |-> FALSE, text |-> "",
               bot_reply |-> Get(data.items[1], "content", "No content")]
         ELSE [raised |-> TRUE, bot_reply |-> "",
               text |-> "'str' object has no attribute 'get'"]
    ELSE IF data.type = "dict"
    THEN [raised |-> FALSE, text |-> "",
          bot_reply |-> Get(data, "content", "No content")]
    ELSE [raised |-> FALSE, text |-> "", bot_reply |-> "Empty response"]

\* The try body, lines 99-128: what it returns, or the exception it leaves
\* with (exc = "" when it returns).
Returns(storage, reply) ==
    [exc |-> "", text |-> "", session_storage |-> storage, reply |-> reply]

Throws(exc, text, storage) ==
    [exc |-> exc, text |-> text, session_storage |-> storage, reply |-> ""]

\* A variant of TryBody that returns the reply without recording it.
TryBodyNoCommit(storage, sid, o) ==
    IF o.kind # "response"
    THEN Throws(o.kind, o.text, storage)
    ELSE IF o.status_code = HTTP_OK
    THEN LET p == ParseReply(o.body)
         IN  IF p.raised
             THEN Throws("Exception", p.text, storage)
             ELSE Returns(storage, p.bot_reply)
    ELSE IF storage[sid] = <<>>
    THEN Throws("Exception", "pop from empty list", storage)
    ELSE Returns([storage EXCEPT ![sid] = Pop(@)],
                 "**Error " \o ToString(o.status_code) \o ":** Unable to fetch data.")

\* A variant of TryBody that raises on a status other than 200.
TryBodyRaiseForStatus(storage, sid, o) ==
    IF o.kind # "response"
    THEN Throws(o.kind, o.text, storage)
    ELSE IF o.status_code = HTTP_OK
    THEN LET p == ParseReply(o.body)
         IN  IF p.raised
             THEN Throws("Exception", p.text, storage)
             ELSE Returns([storage EXCEPT ![sid] = Append(@, AssistantTurn(p.bot_reply))],
                          p.bot_reply)
    ELSE Throws("Exception", "Server error " \o ToString(o.status_code), storage)

TryBody(storage, sid, o) ==
    IF o.kind # "response"
    THEN Throws(o.kind, o.text, storage)
    ELSE IF o.status_code = HTTP_OK
    THEN LET p == ParseReply(o.body)
         IN  IF p.raised
             THEN Throws("Exception", p.text, storage)
             ELSE Returns([storage EXCEPT ![sid] = Append(@, AssistantTurn(p.bot_reply))],
                          p.bot_reply)
    ELSE IF storage[sid] = <<>>
    THEN Throws("Exception", "pop from empty list", storage)
    ELSE Returns([storage EXCEPT ![sid] = Pop(@)],
                 "**Error " \o ToString(o.status_code) \o ":** Unable to fetch data.")

\* A variant of Finish whose transport-error clause does not roll back.
FinishKeepsTurn(storage, sid, o) ==
    LET b == TryBody(storage, sid, o)
    IN  IF b.exc = ""
        THEN [raised |-> FALSE, session_storage |-> b.session_storage, reply |-> b.reply]
        ELSE IF b.exc = "RequestError"
        THEN [raised |-> FALSE, session_storage |-> b.session_storage,
              reply |-> "**Connection Error:** " \o b.text]
        ELSE IF b.session_storage[sid] = <<>>
        THEN [raised |-> TRUE, session_storage |-> b.session_storage, reply |-> ""]
        ELSE [raised |-> FALSE,
              session_storage |-> [b.session_storage EXCEPT ![sid] = Pop(@)],
              reply |-> "**System Error:** " \o b.text]

\* A variant of Finish that drops a session whose log a rollback emptied.
FinishDropsEmpty(storage, sid, o) ==
    LET b == TryBody(storage, sid, o)
        rolled == IF b.exc = "" THEN b.session_storage
                  ELSE [b.session_storage EXCEPT ![sid] = Pop(@)]
        kept == IF rolled[sid] = <<>>
                THEN [s \in DOMAIN rolled \ {sid} |-> rolled[s]]
                ELSE rolled
    IN  [raised |-> FALSE, session_storage |-> kept,
         reply |-> IF b.exc = "" THEN b.reply
                   ELSE IF b.exc = "RequestError"
                   THEN "**Connection Error:** " \o b.text
                   ELSE "**System Error:** " \o b.text]

\* Lines 99-135: the try body and its except clauses.  A pop of an empty
\* list inside an except clause is an IndexError that leaves the handler.
Finish(storage, sid, o) ==
    LET b == TryBody(storage, sid, o)
    IN  IF b.exc = ""
        THEN [raised |-> FALSE, session_storage |-> b.session_storage, reply |-> b.reply]
        ELSE IF b.session_storage[sid] = <<>>
        THEN [raised |-> TRUE, session_storage |-> b.session_storage, reply |-> ""]
        ELSE [raised |-> FALSE,
              session_storage |-> [b.session_storage EXCEPT ![sid] = Pop(@)],
              reply |-> IF b.exc = "RequestError"
                        THEN "**Connection Error:** " \o b.text
                        ELSE "**System Error:** " \o b.text]

\* ------------------------------------------------------- the feedback file
\* User_Feedback.json: whether it exists, whether its bytes decode as JSON,
\* and the decoded list.
NoFile == [exists |-> FALSE, valid |-> FALSE, data |-> <<>>]

JsonFile(data) == [exists |-> TRUE, valid |-> TRUE, data |-> data]

CorruptFile == [exists |-> TRUE, valid |-> FALSE, data |-> <<>>]

InitialFiles == {NoFile, JsonFile(<<>>), CorruptFile}

\* if not os.path.exists(file_path): json.dump([], f)
CreateIfAbsent(file) == IF file.exists THEN file ELSE JsonFile(<<>>)

\* json.load(f), with data = [] on JSONDecodeError
LoadFeedback(file) == IF file.valid THEN file.data ELSE <<>>

\* A variant of StoreFeedback that puts the new entry first.
StoreFeedbackPrepend(file, new_entry) ==
    LET data == <<new_entry>> \o LoadFeedback(CreateIfAbsent(file))
    IN  [feedback_file |-> JsonFile(data), data |-> data]

\* The read-append-write of save_feedback: the file it leaves and its local
\* list data.
StoreFeedback(file, new_entry) ==
    LET data == Append(LoadFeedback(CreateIfAbsent(file)), new_entry)
    IN  [feedback_file |-> JsonFile(data), data |-> data]

JSONResponse(key, value, status_code) ==
    [status_code |-> status_code, content |-> <<key, value>>]

FeedbackSaved == JSONResponse("message", "Feedback saved successfully", HTTP_OK)

FeedbackError(text) == JSONResponse("error", text, 500)

\* What the awaited POST to the mirror can produce.
MirrorOutcomes ==
    { Response(HTTP_OK, JOther("str")),
      Response(500, JOther("str")),
      Raises("TimeoutException", "timed out"),
      Raises("Exception", "boom") }

\* Whether the file operations of one submission work or open() raises.
FileOutcomes == {"ok", "OSError"}

\* A variant of AfterMirror that passes a failure of the mirror on.
AfterMirrorStrict(o) ==
    IF o.kind = "response" /\ o.status_code = HTTP_OK
    THEN FeedbackSaved
    ELSE FeedbackError(o.text)

\* The response of save_feedback once the mirror call is over.
AfterMirror(o) == FeedbackSaved

NoEntry == [question |-> "", response |-> "", rating |-> "", comment |-> ""]

NoFeedback ==
    [pc |-> "idle", new_entry |-> NoEntry, data |-> <<>>, result |-> <<>>,
     mirror |-> NoResponse]

\* ---------------------------------------------------------------- e-mail
\* What convert_html_to_pdf returns: None or the bytes of the PDF.
PdfContents == {<<>>, <<"%PDF">>}

DEFAULT_SMTP_PASS == "your_app_password"

Passwords == {DEFAULT_SMTP_PASS, "app-secret"}

\* SMTP_PORT as the environment gives it; int() accepts the first only.
Ports == {"587", "smtp"}

NumericStrings == {"587", "465", "25"}

\* send_email_via_smtp: whether it raises, its return value, and whether it
\* opened an SMTP connection.  smtp_ok: the SMTP conversation raises nothing.
send_email_via_smtp(SMTP_PORT, SMTP_PASS, smtp_ok) ==
    IF SMTP_PORT \notin NumericStrings
    THEN [raised |-> TRUE, sent |-> FALSE, attempted |-> FALSE]
    ELSE IF SMTP_PASS = DEFAULT_SMTP_PASS
    THEN [raised |-> FALSE, sent |-> TRUE, attempted |-> FALSE]
    ELSE [raised |-> FALSE, sent |-> smtp_ok, attempted |-> TRUE]

\* The body of send_email_endpoint after convert_html_to_pdf has returned:
\* whether it raises, the response, whether SMTP was attempted.
send_email_endpoint(pdf_content, SMTP_PORT, SMTP_PASS, smtp_ok) ==
    IF pdf_content = <<>>
    THEN [raised |-> FALSE, attempted |-> FALSE,
          response |-> <<[success |-> FALSE, message |-> "PDF Generation Failed"]>>]
    ELSE LET r == send_email_via_smtp(SMTP_PORT, SMTP_PASS, smtp_ok)
         IN  IF r.raised
             THEN [raised |-> TRUE, attempted |-> FALSE, response |-> <<>>]
             ELSE IF r.sent
             THEN [raised |-> FALSE, attempted |-> r.attempted,
                   response |-> <<[success |-> TRUE, message |-> ""]>>]
             ELSE [raised |-> FALSE, attempted |-> r.attempted,
                   response |-> <<[success |-> FALSE,
                                   message |-> "Failed to send email (SMTP Error)"]>>]

NoMail ==
    [email |-> "", pdf_content |-> <<>>, SMTP_PORT |-> "", SMTP_PASS |-> "",
     smtp_ok |-> FALSE, raised |-> FALSE, attempted |-> FALSE, response |-> <<>>]

\* ------------------------------------------------------------ the handler
NoLocal == [session_id |-> "", user_message |-> "", full_history_payload |-> <<>>]

InitChat ==
    /\ session_storage = <<>>
    /\ pc = [t \in Tasks |-> "idle"]
    /\ local = [t \in Tasks |-> NoLocal]
    /\ returned = [t \in Tasks |-> <<>>]
    /\ response = [t \in Tasks |-> NoResponse]
    /\ before = [t \in Tasks |-> <<>>]
    /\ slot = [t \in Tasks |-> 0]
    /\ alone = [t \in Tasks |-> TRUE]
    /\ first_exchange = [sid \in Sessions |-> <<>>]
    /\ succeeded = [sid \in Sessions |-> 0]
    /\ running = "none"

InitAux ==
    /\ feedback = [f \in FeedbackTasks |-> NoFeedback]
    /\ submitted = <<>>
    /\ mail = NoMail

Init == InitChat /\ InitAux /\ feedback_file = NoFile

InFlight(sid) == {u \in Tasks : pc[u] = "awaiting" /\ local[u].session_id = sid}

\* POST /chat, up to the await of the upstream call.
ChatRequest(t, sid, message) ==
    /\ pc[t] # "awaiting"
    /\ LET r == BeginExchange(session_storage, sid, message)
       IN  /\ session_storage' = r.session_storage
           /\ local' = [local EXCEPT ![t] =
                  [session_id |-> sid, user_message |-> message,
                   full_history_payload |-> r.full_history_payload]]
           /\ slot' = [slot EXCEPT ![t] = Len(r.session_storage[sid])]
    /\ pc' = [pc EXCEPT ![t] = "awaiting"]
    /\ returned' = [returned EXCEPT ![t] = <<>>]
    /\ response' = [response EXCEPT ![t] = NoResponse]
    /\ before' = [before EXCEPT ![t] = Stored(session_storage, sid)]
    /\ alone' = [u \in Tasks |->
                   IF u = t THEN InFlight(sid) = {}
                   ELSE IF u \in InFlight(sid) THEN FALSE ELSE alone[u]]
    /\ UNCHANGED first_exchange

\* The outcomes on which the handler reaches line 122 (the exchange succeeds).
Committed(o) ==
    o.kind = "response" /\ o.status_code = HTTP_OK /\ ~ParseReply(o.body).raised

\* The awaited POST completes (with a response or an exception) and the
\* handler runs to its end.
UpstreamResponds(t, o) ==
    /\ pc[t] = "awaiting"
    /\ LET sid == local[t].session_id
           r == Finish(session_storage, sid, o)
       IN  /\ session_storage' = r.session_storage
           /\ pc' = [pc EXCEPT ![t] = IF r.raised THEN "raised" ELSE "returned"]
           /\ returned' = [returned EXCEPT ![t] =
                  IF r.raised THEN <<>> ELSE <<[reply |-> r.reply]>>]
           /\ first_exchange' =
                  IF Committed(o) /\ first_exchange[sid] = <<>>
                  THEN [first_exchange EXCEPT ![sid] =
                           <<UserTurn(local[t].user_message), AssistantTurn(r.reply)>>]
                  ELSE first_exchange
    /\ local' = [local EXCEPT ![t].full_history_payload = <<>>]
    /\ response' = [response EXCEPT ![t] = o]
    /\ before' = [before EXCEPT ![t] = <<>>]
    /\ slot' = [slot EXCEPT ![t] = 0]
    /\ UNCHANGED alone

\* A variant of Cancel in which the cancellation reaches the last except
\* clause and rolls back.
CancelRollsBack(t) ==
    /\ pc[t] = "awaiting"
    /\ pc' = [pc EXCEPT ![t] = "cancelled"]
    /\ session_storage' = [session_storage EXCEPT ![local[t].session_id] = Pop(@)]
    /\ local' = [local EXCEPT ![t].full_history_payload = <<>>]
    /\ before' = [before EXCEPT ![t] = <<>>]
    /\ slot' = [slot EXCEPT ![t] = 0]
    /\ UNCHANGED <<returned, response, alone, first_exchange>>

\* The task is cancelled at the await: CancelledError is not an Exception,
\* so no except clause of the handler runs.
Cancel(t) ==
    /\ pc[t] = "awaiting"
    /\ pc' = [pc EXCEPT ![t] = "cancelled"]
    /\ local' = [local EXCEPT ![t].full_history_payload = <<>>]
    /\ before' = [before EXCEPT ![t] = <<>>]
    /\ slot' = [slot EXCEPT ![t] = 0]
    /\ UNCHANGED <<session_storage, returned, response, alone, first_exchange>>

\* ---------------------------------------------------- auxiliary endpoints
\* POST /feedback, up to the await of the mirror call.  When open() raises,
\* the handler answers 500 and the mirror is not called.
SaveFeedback(f, new_entry, io) ==
    /\ feedback[f].pc # "mirroring"
    /\ IF io = "ok"
       THEN LET r == StoreFeedback(feedback_file, new_entry)
            IN  /\ feedback_file' = r.feedback_file
                /\ feedback' = [feedback EXCEPT ![f] =
                       [pc |-> "mirroring", new_entry |-> new_entry,
                        data |-> r.data, result |-> <<>>, mirror |-> NoResponse]]
                /\ submitted' = Append(submitted, new_entry)
       ELSE /\ feedback_file' = CreateIfAbsent(feedback_file)
            /\ feedback' = [feedback EXCEPT ![f] =
                   [pc |-> "done", new_entry |-> new_entry, data |-> <<>>,
                    result |-> <<FeedbackError("Permission denied")>>,
                    mirror |-> NoResponse]]
            /\ UNCHANGED submitted
    /\ UNCHANGED <<chat, succeeded, running, mail>>

\* A variant of MirrorResponds that writes the task's list back to the file
\* after the await.
MirrorRespondsWritesBack(f, o) ==
    /\ feedback[f].pc = "mirroring"
    /\ feedback' = [feedback EXCEPT ![f].pc = "done", ![f].data = <<>>,
                                    ![f].result = <<AfterMirror(o)>>,
                                    ![f].mirror = o]
    /\ feedback_file' = JsonFile(feedback[f].data)
    /\ UNCHANGED <<chat, succeeded, running, submitted, mail>>

\* The awaited POST to the mirror completes (with a response or an
\* exception) and save_feedback returns.
MirrorResponds(f, o) ==
    /\ feedback[f].pc = "mirroring"
    /\ feedback' = [feedback EXCEPT ![f].pc = "done", ![f].data = <<>>,
                                    ![f].result = <<AfterMirror(o)>>,
                                    ![f].mirror = o]
    /\ UNCHANGED <<chat, succeeded, running, feedback_file, submitted, mail>>

\* POST /send-email: the handler never awaits.
SendEmail(email, pdf_content, SMTP_PORT, SMTP_PASS, smtp_ok) ==
    /\ LET r == send_email_endpoint(pdf_content, SMTP_PORT, SMTP_PASS, smtp_ok)
       IN  mail' = [email |-> email, pdf_content |-> pdf_content,
                    SMTP_PORT |-> SMTP_PORT, SMTP_PASS |-> SMTP_PASS,
                    smtp_ok |-> smtp_ok, raised |-> r.raised,
                    attempted |-> r.attempted, response |-> r.response]
    /\ UNCHANGED <<chat, succeeded, running, feedback_file, feedback, submitted>>

\* ------------------------------------------------- statement by statement
\* chat_endpoint as the event loop runs it: one statement at a time, and
\* another task may run only after the running one has suspended.
Statements == <<"create", "append", "window", "post", "parse", "settle">>

Following(stmt) ==
    Statements[(CHOOSE i \in DOMAIN Statements : Statements[i] = stmt) + 1]

\* A variant of Awaits in which appending the user turn also suspends.
AwaitsAfterAppend(stmt) == stmt \in {"append", "post"}

\* The statements that suspend the coroutine.
Awaits(stmt) == stmt = "post"

\* The request arrives and the event loop starts its handler.
Receive(t, sid, message) ==
    /\ running = "none"
    /\ pc[t] \in {"idle", "returned", "raised"}
    /\ running' = t
    /\ pc' = [pc EXCEPT ![t] = "create"]
    /\ local' = [local EXCEPT ![t] =
           [session_id |-> sid, user_message |-> message,
            full_history_payload |-> <<>>]]
    /\ returned' = [returned EXCEPT ![t] = <<>>]
    /\ response' = [response EXCEPT ![t] = NoResponse]
    /\ UNCHANGED <<session_storage, before, slot, alone, first_exchange,
                   succeeded, aux>>

\* The event loop runs the next statement of t: lazy creation (lines 81-82),
\* the append of the user turn (85), the window (90-97), the POST up to its
\* await (104-110), the decoding of the response (112-119), and the commit
\* or rollback with the return (122-135).
Execute(t) ==
    /\ running \in {t, "none"}
    /\ \E i \in DOMAIN Statements : Statements[i] = pc[t]
    /\ LET sid == local[t].session_id
           r == Finish(session_storage, sid, response[t])
       IN  /\ session_storage' =
                  CASE pc[t] = "create" ->
                           IF sid \in DOMAIN session_storage THEN session_storage
                           ELSE (sid :> <<>>) @@ session_storage
                    [] pc[t] = "append" ->
                           [session_storage EXCEPT ![sid] =
                                Append(@, UserTurn(local[t].user_message))]
                    [] pc[t] = "settle" -> r.session_storage
                    [] OTHER -> session_storage
           /\ local' =
                  CASE pc[t] = "window" ->
                           [local EXCEPT ![t].full_history_payload =
                                ContextWindow(session_storage[sid])]
                    [] pc[t] = "settle" ->
                           [local EXCEPT ![t].full_history_payload = <<>>]
                    [] OTHER -> local
           /\ returned' =
                  IF pc[t] = "settle" /\ ~r.raised
                  THEN [returned EXCEPT ![t] = <<[reply |-> r.reply]>>]
                  ELSE returned
           /\ pc' = [pc EXCEPT ![t] =
                  CASE pc[t] = "post" -> "awaiting"
                    [] pc[t] = "settle" ->
                           IF r.raised THEN "raised" ELSE "returned"
                    [] OTHER -> Following(pc[t])]
    /\ running' = IF Awaits(pc[t]) \/ pc[t] = "settle" THEN "none" ELSE t
    /\ UNCHANGED <<response, before, slot, alone, first_exchange, succeeded, aux>>

\* The awaited POST completes and the event loop resumes t.
Resume(t, o) ==
    /\ running = "none"
    /\ pc[t] = "awaiting"
    /\ running' = t
    /\ pc' = [pc EXCEPT ![t] = "parse"]
    /\ response' = [response EXCEPT ![t] = o]
    /\ UNCHANGED <<session_storage, local, returned, before, slot, alone,
                   first_exchange, succeeded, aux>>

\* UpstreamResponds, counting the exchanges that succeed.
Counted(t, o) ==
    /\ UpstreamResponds(t, o)
    /\ succeeded' = IF Committed(o)
                    THEN [succeeded EXCEPT ![local[t].session_id] = @ + 1]
                    ELSE succeeded

\* ---------------------------------------------------------- specifications
TotalTurns ==
    LET RECURSIVE Sum(_)
        Sum(S) == IF S = {} THEN 0
                  ELSE LET s == CHOOSE x \in S : TRUE
                       IN  Len(session_storage[s]) + Sum(S \ {s})
    IN  Sum(DOMAIN session_storage)

\* Any number of handler tasks, interleaved at their awaits.
Next ==
    \/ \E t \in Tasks, sid \in Sessions, message \in Messages :
           TotalTurns < MaxTurns /\ ChatRequest(t, sid, message)
           /\ UNCHANGED <<succeeded, running, aux>>
    \/ \E t \in Tasks, o \in ConcOutcomes :
           UpstreamResponds(t, o) /\ UNCHANGED <<succeeded, running, aux>>
    \/ \E t \in Tasks : Cancel(t) /\ UNCHANGED <<succeeded, running, aux>>

Spec == Init /\ [][Next]_vars

\* One session with a long log: concurrent tasks, cancellations.
LongNext ==
    \/ \E t \in Tasks, sid \in LongSessions, message \in LongMessages :
           TotalTurns < LongTurns /\ ChatRequest(t, sid, message)
           /\ UNCHANGED <<succeeded, running, aux>>
    \/ \E t \in Tasks, o \in LongOutcomes :
           UpstreamResponds(t, o) /\ UNCHANGED <<succeeded, running, aux>>
    \/ \E t \in Tasks : Cancel(t) /\ UNCHANGED <<succeeded, running, aux>>

LongSpec == Init /\ [][LongNext]_vars

\* One session with a long log: exchanges one after another, none cancelled.
SeqNext ==
    \/ \E t \in SeqTasks, sid \in LongSessions, message \in Messages :
           /\ InFlight(sid) = {}
           /\ TotalTurns < LongTurns
           /\ ChatRequest(t, sid, message)
           /\ UNCHANGED <<succeeded, running, aux>>
    \/ \E t \in SeqTasks, o \in SeqOutcomes :
           UpstreamResponds(t, o) /\ UNCHANGED <<succeeded, running, aux>>

SeqSpec == Init /\ [][SeqNext]_vars

\* One exchange after another, over every upstream outcome.
ReplyNext ==
    \/ \E t \in SeqTasks, sid \in LongSessions, message \in Messages :
           /\ InFlight(sid) = {}
           /\ TotalTurns < MaxTurns
           /\ ChatRequest(t, sid, message)
           /\ UNCHANGED <<succeeded, running, aux>>
    \/ \E t \in SeqTasks, o \in Outcomes :
           UpstreamResponds(t, o) /\ UNCHANGED <<succeeded, running, aux>>

ReplySpec == Init /\ [][ReplyNext]_vars

\* The feedback and e-mail endpoints: feedback tasks interleaved at their
\* awaits, from every initial feedback file.
AuxInit == InitChat /\ InitAux /\ feedback_file \in InitialFiles

AuxNext ==
    \/ \E f \in FeedbackTasks, new_entry \in Entries, io \in FileOutcomes :
           /\ Len(LoadFeedback(feedback_file)) < MaxFeedback
           /\ SaveFeedback(f, new_entry, io)
    \/ \E f \in FeedbackTasks, o \in MirrorOutcomes : MirrorResponds(f, o)
    \/ \E email \in Recipients, pdf_content \in PdfContents, SMTP_PORT \in Ports,
          SMTP_PASS \in Passwords, smtp_ok \in BOOLEAN :
           SendEmail(email, pdf_content, SMTP_PORT, SMTP_PASS, smtp_ok)

AuxSpec == AuxInit /\ [][AuxNext]_vars

\* Statement by statement on the one event loop.
StepNext ==
    \/ \E t \in Tasks, sid \in Sessions, message \in LongMessages :
           TotalTurns < MaxTurns /\ Receive(t, sid, message)
    \/ \E t \in Tasks : Execute(t)
    \/ \E t \in Tasks, o \in SeqOutcomes : Resume(t, o)

StepSpec == Init /\ [][StepNext]_vars

\* Any number of handler tasks, interleaved at their awaits, none cancelled.
RaceNext ==
    \/ \E t \in Tasks, sid \in Sessions, message \in Messages :
           TotalTurns < MaxTurns /\ ChatRequest(t, sid, message)
           /\ UNCHANGED <<succeeded, running, aux>>
    \/ \E t \in Tasks, o \in ConcOutcomes :
           Counted(t, o) /\ UNCHANGED <<running, aux>>

RaceSpec == Init /\ [][RaceNext]_vars
\* ------------------------------------------------------------------ claims
Awaiting(t) == pc[t] = "awaiting"

\* The stored log of the session task t is working on.
LogOf(t) == Stored(session_storage, local[t].session_id)

Payload(t) == local[t].full_history_payload

Sends(t) == pc[t] # "awaiting" /\ pc'[t] = "awaiting"

C3_WindowOfShortLog ==
    [][\A t \in Tasks :
          LET log == session_storage'[local'[t].session_id]
          IN  Sends(t) /\ Len(log) <= 12 => local'[t].full_history_payload = log]_vars

C3_Witness ==
    \E t \in Tasks :
        Awaiting(t) /\ alone[t] /\ Len(LogOf(t)) = 12 /\ Payload(t) = LogOf(t)

\* C7: the step that computes the window leaves in the store the log as it
\* was on entry plus the new user turn, whatever its length: nothing is cut
\* from the stored log, which may exceed 12 turns.
C7_WindowKeepsLog ==
    [][\A t \in Tasks :
          Sends(t) =>
              session_storage'[local'[t].session_id] =
                  Append(Stored(session_storage, local'[t].session_id),
                         UserTurn(local'[t].user_message))]_vars

C7_Witness ==
    \E t \in Tasks :
        Awaiting(t) /\ alone[t] /\ Len(LogOf(t)) > 12 /\ Len(Payload(t)) < Len(LogOf(t))

\* A step in which task t resumes from its await with an upstream outcome
\* and runs the handler to its end.
Completes(t) == pc[t] = "awaiting" /\ pc'[t] \in {"returned", "raised"}

\* C4: a failed exchange during which no other exchange on the session was in
\* flight leaves the session's log as it was when the handler was entered
\* (empty, for an id seen for the first time).
C4_FailedExchangeRestoresLog ==
    [][\A t \in Tasks :
          Completes(t) /\ alone[t] /\ ~Committed(response'[t]) =>
              session_storage'[local[t].session_id] = before[t]]_vars

C4_Witness ==
    \E t \in Tasks :
        /\ pc[t] = "returned" /\ alone[t]
        /\ response[t] = Response(HTTP_OK, JList(<<EStr>>))
        /\ Len(LogOf(t)) = 2

\* C5: a successful exchange during which no other exchange on the session
\* was in flight leaves the log as it was on entry, followed by the request's
\* user turn and one assistant turn holding the reply.
C5_SuccessAppendsTwo ==
    [][\A t \in Tasks :
          Completes(t) /\ alone[t] /\ Committed(response'[t]) =>
              /\ pc'[t] = "returned"
              /\ session_storage'[local[t].session_id] =
                     before[t] \o <<UserTurn(local[t].user_message),
                                    AssistantTurn(returned'[t][1].reply)>>]_vars

C5_Witness ==
    \E t \in Tasks :
        /\ pc[t] = "returned" /\ alone[t] /\ Committed(response[t])
        /\ Len(LogOf(t)) = 4
        /\ SubSeq(LogOf(t), 3, 4) =
               <<UserTurn(local[t].user_message), AssistantTurn(returned[t][1].reply)>>

\* C6: when a handler resumes to commit or roll back, the last turn of the
\* session's log is the user turn its own exchange appended.
C6_NoInterleaving ==
    [][\A t \in Tasks :
          Completes(t) =>
              LET log == session_storage[local[t].session_id]
              IN  /\ Len(log) = slot[t]
                  /\ log[Len(log)] = UserTurn(local[t].user_message)]_vars

\* C8: once a session's first successful exchange has completed, every later
\* payload for the session begins with that exchange's user turn followed by
\* its assistant turn.
C8_PinningStable ==
    \A t \in Tasks :
        Awaiting(t) /\ first_exchange[local[t].session_id] # <<>> =>
            /\ Len(Payload(t)) >= 2
            /\ SubSeq(Payload(t), 1, 2) = first_exchange[local[t].session_id]

C8_Witness ==
    \E t \in Tasks :
        /\ Awaiting(t) /\ Len(LogOf(t)) > 12
        /\ first_exchange[local[t].session_id] # <<>>
        /\ first_exchange[local[t].session_id][1] # LogOf(t)[3]

\* The reply the handler is to return on a failed exchange.
ErrorReply(o) ==
    IF o.kind = "response" /\ o.status_code # HTTP_OK
    THEN "**Error " \o ToString(o.status_code) \o ":** Unable to fetch data."
    ELSE IF o.kind = "RequestError"
    THEN "**Connection Error:** " \o o.text
    ELSE IF o.kind = "response"
    THEN "**System Error:** " \o ParseReply(o.body).text
    ELSE "**System Error:** " \o o.text

\* The reply under a policy that answers "No content" in every case other
\* than a content field found.
NoContentPolicy(b) ==
    IF b.type = "list" /\ b.items # <<>>
    THEN Get(b.items[1], "content", "No content")
    ELSE IF b.type = "dict"
    THEN Get(b, "content", "No content")
    ELSE "No content"

\* C9 as stated: on a status 200 with a decodable body the reply is the first
\* element's content, the object's content, or "No content" in every other
\* case, and it is recorded as the assistant turn.
C9_AsStated ==
    [][\A t \in Tasks :
          LET o == response'[t]
              sid == local[t].session_id
          IN  Completes(t) /\ o.kind = "response" /\ o.status_code = HTTP_OK
                  /\ o.body.type # "invalid" =>
                  /\ returned'[t] = <<[reply |-> NoContentPolicy(o.body)]>>
                  /\ session_storage'[sid] =
                         Append(session_storage[sid],
                                AssistantTurn(NoContentPolicy(o.body)))]_vars

\* The bodies for which an assistant turn is recorded: a non-empty list
\* whose first element is an object, an object, an empty list, a scalar or
\* null.
Recordable(b) ==
    \/ b.type = "list" /\ b.items # <<>> /\ b.items[1].type = "dict"
    \/ b.type = "dict"
    \/ b.type = "list" /\ b.items = <<>>
    \/ b.type \notin {"list", "dict", "invalid"}

\* The reply under a policy that answers "Empty response" for a body that is
\* neither a non-empty list nor an object.
EmptyResponsePolicy(b) ==
    IF b.type = "list" /\ b.items # <<>>
    THEN Get(b.items[1], "content", "No content")
    ELSE IF b.type = "dict"
    THEN Get(b, "content", "No content")
    ELSE "Empty response"

\* C9 amended: on a status 200, a body that is a non-empty list whose first
\* element is an object, or an object, gives that object's content, or
\* "No content" if it has none; any other decodable body gives "Empty
\* response"; the reply returned is the content of the assistant turn
\* recorded.  An undecodable body, or a first element that is not an object,
\* gives a system-error reply and a rollback instead.
C9_ReplyFromBody ==
    [][\A t \in Tasks :
          LET o == response'[t]
              sid == local[t].session_id
          IN  Completes(t) /\ o.kind = "response" /\ o.status_code = HTTP_OK =>
                  IF Recordable(o.body)
                  THEN /\ returned'[t] = <<[reply |-> EmptyResponsePolicy(o.body)]>>
                       /\ session_storage'[sid] =
                              Append(session_storage[sid],
                                     AssistantTurn(EmptyResponsePolicy(o.body)))
                  ELSE /\ returned'[t] \in
                              { <<[reply |-> "**System Error:** " \o text]>> : text \in
                                  { "Expecting value: line 1 column 1 (char 0)",
                                    "'str' object has no attribute 'get'" } }
                       /\ session_storage'[sid] = Pop(session_storage[sid])]_vars

C9_Witness ==
    \E t \in Tasks :
        /\ pc[t] = "returned"
        /\ response[t] = Response(HTTP_OK, JList(<<>>))
        /\ returned[t] = <<[reply |-> "Empty response"]>>
        /\ LogOf(t)[Len(LogOf(t))] = AssistantTurn("Empty response")

\* C10: every failed exchange returns a reply (the handler does not raise),
\* the reply names the failure (the status code, the connection error, the
\* system error), and exactly one turn is removed from the session's log.
C10_ErrorPathsRollBackOnce ==
    [][\A t \in Tasks :
          LET o == response'[t]
              sid == local[t].session_id
          IN  Completes(t) /\ ~Committed(o) =>
                  /\ pc'[t] = "returned"
                  /\ returned'[t] = <<[reply |-> ErrorReply(o)]>>
                  /\ Len(session_storage[sid]) >= 1
                  /\ session_storage'[sid] = Pop(session_storage[sid])]_vars

C10_Witness ==
    \E t \in Tasks :
        /\ pc[t] = "returned" /\ ~alone[t]
        /\ response[t].status_code = 404
        /\ returned[t] = <<[reply |-> "**Error 404:** Unable to fetch data."]>>

\* A step in which task t is cancelled at its await.
Cancelled(t) == pc[t] = "awaiting" /\ pc'[t] = "cancelled"

\* C11: a cancellation at the await changes no log and returns nothing: the
\* user turn of the exchange stays and no assistant turn is added, so with
\* no other exchange in flight on the session the log is the log on entry
\* plus that one user turn.
C11_CancelKeepsUserTurn ==
    [][\A t \in Tasks :
          Cancelled(t) =>
              /\ session_storage' = session_storage
              /\ returned'[t] = <<>>
              /\ alone[t] =>
                     session_storage'[local[t].session_id] =
                         Append(before[t], UserTurn(local[t].user_message))]_vars

C11_Witness ==
    \E t \in Tasks :
        /\ pc[t] = "cancelled" /\ alone[t]
        /\ Len(LogOf(t)) = 3
        /\ LogOf(t)[2].role = "assistant"
        /\ LogOf(t)[3] = UserTurn(local[t].user_message)

\* C12: the store starts empty; an id enters it only in a step that handles
\* a request naming it, with a log holding just that request's user turn;
\* no id ever leaves it; and a session whose only exchange failed stays in
\* the store with an empty log.
C12_SessionsOnlyGrow ==
    [][/\ DOMAIN session_storage \subseteq DOMAIN session_storage'
       /\ \A sid \in DOMAIN session_storage' \ DOMAIN session_storage :
              \E t \in Tasks :
                  /\ Sends(t) /\ local'[t].session_id = sid
                  /\ session_storage'[sid] = <<UserTurn(local'[t].user_message)>>
       /\ \A t \in Tasks :
              Completes(t) /\ ~Committed(response'[t]) /\ alone[t]
                  /\ before[t] = <<>> =>
                  /\ local[t].session_id \in DOMAIN session_storage'
                  /\ session_storage'[local[t].session_id] = <<>>]_vars

C12_Witness ==
    \E t \in Tasks :
        /\ pc[t] = "returned" /\ ~Committed(response[t])
        /\ local[t].session_id \in DOMAIN session_storage
        /\ session_storage[local[t].session_id] = <<>>
        /\ DOMAIN session_storage = Sessions

\* ------------------------------------------------------ feedback and e-mail
\* A step in which feedback task f finishes its local write and calls the
\* mirror; a step in which its mirror call is over.
Stores(f) == feedback[f].pc # "mirroring" /\ feedback'[f].pc = "mirroring"

MirrorDone(f) == feedback[f].pc = "mirroring" /\ feedback'[f].pc = "done"

InFile(new_entry) ==
    /\ feedback_file.valid
    /\ \E i \in DOMAIN feedback_file.data : feedback_file.data[i] = new_entry

\* The submissions whose local write succeeded.
Accepted(f) ==
    \/ feedback[f].pc = "mirroring"
    \/ feedback[f].pc = "done" /\ feedback[f].result = <<FeedbackSaved>>

\* C13: when the local read-append-write succeeds, the entry is the last
\* one of the file at the moment the mirror is called, and whatever the
\* mirror call produces (200, another status, a timeout, any exception)
\* save_feedback returns the success response and leaves the file alone.
C13_MirrorFailureSwallowed ==
    [][\A f \in FeedbackTasks :
          /\ Stores(f) =>
                 /\ feedback_file'.valid
                 /\ feedback_file'.data # <<>>
                 /\ feedback_file'.data[Len(feedback_file'.data)] =
                        feedback'[f].new_entry
          /\ MirrorDone(f) =>
                 /\ InFile(feedback[f].new_entry)
                 /\ feedback'[f].result = <<FeedbackSaved>>
                 /\ feedback_file' = feedback_file]_vars

C13_Witness ==
    \E f \in FeedbackTasks, g \in FeedbackTasks :
        /\ feedback[f].pc = "done" /\ feedback[f].mirror.kind = "TimeoutException"
        /\ feedback[f].result = <<FeedbackSaved>>
        /\ feedback[g].pc = "done" /\ feedback[g].mirror.kind = "response"
        /\ feedback[g].mirror.status_code = 500
        /\ feedback[g].result = <<FeedbackSaved>>
        /\ InFile(feedback[f].new_entry) /\ InFile(feedback[g].new_entry)

\* C14: once a submission has been stored, the file is a JSON list equal to
\* the entries submitted so far, in the order of their submission, whether
\* the file was absent, an empty list or empty at the start.
C14_FileRoundTrip ==
    /\ submitted # <<>> => feedback_file = JsonFile(submitted)
    /\ feedback_file.valid => feedback_file.data = submitted

C14_Witness ==
    /\ feedback["f2"].pc = "idle"
    /\ feedback["f1"].pc = "done"
    /\ Len(submitted) = 3
    /\ submitted[1] # submitted[2]
    /\ feedback_file = JsonFile(submitted)

\* C15: the file changes only in the step of one submission, which reads
\* and writes it with no other step in between, adding its entry to what
\* the file held; every stored submission's entry is in the file, and the
\* file holds as many entries as submissions were stored.
C15_NoLostUpdate ==
    [][/\ feedback_file' # feedback_file =>
              \E f \in FeedbackTasks :
                  /\ \A g \in FeedbackTasks \ {f} : feedback'[g] = feedback[g]
                  /\ LoadFeedback(feedback_file') =
                         IF Stores(f)
                         THEN Append(LoadFeedback(feedback_file),
                                     feedback'[f].new_entry)
                         ELSE LoadFeedback(feedback_file)
       /\ \A f \in FeedbackTasks : Accepted(f)' => InFile(feedback[f].new_entry)'
       /\ Len(LoadFeedback(feedback_file')) = Len(submitted')]_vars

C15_Witness ==
    /\ \A f \in FeedbackTasks : feedback[f].pc = "mirroring"
    /\ feedback["f1"].new_entry # feedback["f2"].new_entry
    /\ \A f \in FeedbackTasks : InFile(feedback[f].new_entry)
    /\ Len(feedback_file.data) = 3

\* C16: /send-email reports success exactly when the PDF was generated and
\* either SMTP_PASS is the default or the SMTP transmission succeeded; no
\* transmission is attempted when the PDF failed or SMTP_PASS is the
\* default; a failure message tells a PDF failure from an SMTP failure.
C16_AsStated ==
    mail.email # "" =>
        LET pdf_ok == mail.pdf_content # <<>>
            default == mail.SMTP_PASS = DEFAULT_SMTP_PASS
            transmitted == mail.attempted /\ mail.smtp_ok
            reported == mail.response # <<>> /\ mail.response[1].success
        IN  /\ reported <=> pdf_ok /\ (default \/ transmitted)
            /\ ~pdf_ok \/ default => ~mail.attempted
            /\ mail.response # <<>> /\ ~mail.response[1].success =>
                   mail.response[1].message =
                       IF pdf_ok THEN "Failed to send email (SMTP Error)"
                       ELSE "PDF Generation Failed"

\* ------------------------------------------------- interleaving and frames
\* Task t has begun a run of statements and has not reached its end.
Mid(t) == \E i \in DOMAIN Statements : Statements[i] = pc[t]

\* C17: from the arrival of the request to the await of the upstream call,
\* and from the arrival of the response to the return, the task holds the
\* event loop and no other task takes a step; other tasks step only while
\* it is awaiting (or idle).
C17_OnlyAwaitInterleaves ==
    [][\A t \in Tasks :
          Mid(t) =>
              /\ running = t
              /\ \A u \in Tasks \ {t} :
                     pc'[u] = pc[u] /\ local'[u] = local[u]
                         /\ returned'[u] = returned[u]]_vars

C17_Witness ==
    \E t \in Tasks, u \in Tasks :
        /\ t # u
        /\ pc[t] = "settle" /\ running = t
        /\ pc[u] = "awaiting"
        /\ local[u].session_id = local[t].session_id
        /\ Len(LogOf(t)) = 2

\* C18: with no cancellation, the length of every session's log is twice
\* the number of its exchanges that succeeded plus the number of its
\* exchanges awaiting the upstream call, and no handler ends by raising (a
\* rollback always finds a turn to pop).
C18_LengthAccounting ==
    /\ \A sid \in DOMAIN session_storage :
           Len(session_storage[sid]) =
               2 * succeeded[sid] + Cardinality(InFlight(sid))
    /\ \A t \in Tasks : pc[t] # "raised"

C18_Witness ==
    \E t \in Tasks :
        /\ pc[t] = "returned" /\ ~Committed(response[t]) /\ ~alone[t]
        /\ succeeded[local[t].session_id] = 1
        /\ InFlight(local[t].session_id) = {}
        /\ Len(LogOf(t)) = 2
        /\ LogOf(t)[2].role = "user"

\* C19: the last turn of the payload of a request in flight is the user
\* turn of that request's own message, whatever other requests on the
\* session have done since.
C19_WindowEndsWithOwnTurn ==
    \A t \in Tasks :
        Awaiting(t) =>
            /\ Payload(t) # <<>>
            /\ Payload(t)[Len(Payload(t))] = UserTurn(local[t].user_message)

C19_Witness ==
    \E t \in Tasks, u \in Tasks :
        /\ Awaiting(t) /\ Awaiting(u)
        /\ local[t].session_id = local[u].session_id
        /\ local[t].user_message # local[u].user_message
        /\ Len(Payload(t)) = 2 /\ Len(Payload(u)) = 3
        /\ Payload(t)[2] = UserTurn(local[t].user_message)
        /\ LogOf(t)[3] = UserTurn(local[u].user_message)

\* C20: a step of an exchange on session A (its request, its completion or
\* its cancellation) leaves every other session as it was, stored or not,
\* and the payload it sends is made of turns of A's log.
C20_SessionIsolation ==
    [][\A t \in Tasks :
          Sends(t) \/ Completes(t) \/ Cancelled(t) =>
              LET A == local'[t].session_id
              IN  /\ \A B \in Sessions \ {A} :
                         /\ B \in DOMAIN session_storage' <=>
                                B \in DOMAIN session_storage
                         /\ Stored(session_storage', B) = Stored(session_storage, B)
                  /\ Sends(t) =>
                         /\ Len(Payload(t)') <= Len(session_storage'[A])
                         /\ \A i \in DOMAIN Payload(t)' :
                                \E j \in DOMAIN session_storage'[A] :
                                    Payload(t)'[i] = session_storage'[A][j]]_vars

C20_Witness ==
    \E t \in Tasks, u \in Tasks :
        /\ Awaiting(t) /\ pc[u] = "returned" /\ Committed(response[u])
        /\ local[t].session_id # local[u].session_id
        /\ local[t].user_message # local[u].user_message
        /\ Len(LogOf(u)) = 2
        /\ Payload(t) = <<UserTurn(local[t].user_message)>>
        /\ LogOf(t) = Payload(t)

\* C21: when no exchange is in flight, after exchanges made one after
\* another with none cancelled, every stored log has even length, its odd
\* positions hold user turns and its even positions assistant turns.
C21_LogAlternates ==
    (\A t \in Tasks : ~Awaiting(t)) =>
        \A sid \in DOMAIN session_storage :
            /\ Len(session_storage[sid]) % 2 = 0
            /\ \A i \in DOMAIN session_storage[sid] :
                   session_storage[sid][i].role =
                       IF i % 2 = 1 THEN "user" ELSE "assistant"

C21_Witness ==
    \E t \in SeqTasks :
        /\ pc[t] = "returned" /\ ~Committed(response[t])
        /\ Len(LogOf(t)) = 4
        /\ LogOf(t)[1].content # LogOf(t)[3].content
        /\ LogOf(t)[3].role = "user" /\ LogOf(t)[4].role = "assistant"
====
